---- MODULE Spec2Model ----
(***************************************************************************)
(* Model of src/src/script.js: a tetrahedron recursively subdivided into   *)
(* a triangle soup (positions / colors), uploaded once to the GL buffers,  *)
(* drawn by a requestAnimationFrame loop and rotated by mouse dragging.    *)
(*                                                                         *)
(* Numbers.  Coordinates and colour channels are fixed-point integers in   *)
(* units of 1/Scale (the seed literals of lines 77-80 rounded to four      *)
(* decimals, so that every product stays inside TLC's 32-bit integers).    *)
(* Rotation angles are integers in units of 1/RotDen radian, so that the   *)
(* sensitivity 0.01 of lines 190-191 is SensNum/RotDen.                    *)
(*                                                                         *)
(* Scheduling.  JavaScript runs every callback to completion: the script   *)
(* body (initSphere and everything it calls) is one task, and mouse and    *)
(* animation-frame callbacks are dispatched only when no task is running.  *)
(* The task of initSphere is modelled step by step (pc, stack) so that the *)
(* intermediate meshes are states of the model; callbacks are guarded by   *)
(* pc = "idle".                                                            *)
(***************************************************************************)
EXTENDS Integers, Sequences, FiniteSets, TLC

\* ------------------------------------------------------------------ bounds
MaxDepth == 2      \* numTimesToSubdivide ranges over 0..MaxDepth
NumSeeds == 2      \* number of initial states of the Math.random generator
MaxRot == 10       \* |rotationX|, |rotationY| <= MaxRot (units of 1/RotDen rad)
MaxRuns == 2       \* number of initSphere() calls in the regeneration driver

\* the pointer coordinates delivered with mouse events (event.clientX/Y)
ClientXs == {10, 20}
ClientYs == {10, 15}

\* --------------------------------------------------------------- constants
Scale == 10000     \* fixed-point unit of coordinates and colour channels
RotDen == 100      \* rotation unit: 1/RotDen radian
SensNum == 1       \* 0.01 = SensNum / RotDen

VARIABLES
    numTimesToSubdivide,  \* line 84
    positions,            \* line 82: flat sequence, 9 numbers per triangle
    colors,               \* line 83: flat sequence, 12 numbers per triangle
    rotationX,            \* line 87
    rotationY,            \* line 88
    isDragging,           \* line 89
    previousMouseX,       \* line 90
    previousMouseY,       \* line 91
    pc,                   \* where the script task stands
    stack,                \* pending divideTriangle calls, next call first
    rng,                  \* state of the Math.random generator
    triangleCalls,        \* calls of triangle() since positions/colors were reset
    runs,                 \* calls of initSphere() so far
    previousPositions,    \* positions as they were when initSphere() last reset them
    previousColors,       \* colors as they were when initSphere() last reset them
    glPositionData,       \* length of the data of the position buffer (bufferData)
    glColorData,          \* length of the data of the color buffer (bufferData)
    uModelViewMatrix,     \* uniform last submitted (product of elementary transforms)
    uProjectionMatrix,    \* uniform last submitted
    drawn,                \* what the last gl.drawArrays call drew
    rafPending            \* render callbacks requested and not yet run

vars == <<numTimesToSubdivide, positions, colors, rotationX, rotationY, isDragging,
          previousMouseX, previousMouseY, pc, stack, rng, triangleCalls, runs,
          previousPositions, previousColors, glPositionData, glColorData,
          uModelViewMatrix, uProjectionMatrix, drawn, rafPending>>

meshVars == <<positions, colors, rng, triangleCalls>>
dragVars == <<rotationX, rotationY, isDragging, previousMouseX, previousMouseY>>
glVars == <<glPositionData, glColorData>>
frameVars == <<uModelViewMatrix, uProjectionMatrix, drawn>>
historyVars == <<previousPositions, previousColors>>

\* ------------------------------------------------------------ vector maths
va == <<0, 0, -10000>>
vb == <<0, 9428, 3333>>
vc == <<-8165, -4714, 3333>>
vd == <<8165, -4714, 3333>>

\* n / d rounded to the nearest integer, symmetric about 0 (d > 0)
RoundDiv(n, d) ==
    IF n >= 0 THEN (2 * n + d) \div (2 * d) ELSE -((2 * (-n) + d) \div (2 * d))

RECURSIVE SqrtSearch(_, _, _)
\* the largest r in lo..hi with r * r <= n
SqrtSearch(n, lo, hi) ==
    IF lo >= hi THEN lo
    ELSE LET mid == (lo + hi + 1) \div 2
         IN IF mid * mid <= n THEN SqrtSearch(n, mid, hi)
            ELSE SqrtSearch(n, lo, mid - 1)

\* Math.sqrt on a fixed-point square (units 1/Scale^2), result in units 1/Scale
Sqrt(n) == SqrtSearch(n, 0, 2 * Scale)

\* mix(u, v, s): (1 - s) * u[i] + s * v[i], s in units of 1/Scale
mix(u, v, s) == [i \in 1..3 |-> RoundDiv((Scale - s) * u[i] + s * v[i], Scale)]

\* normalize(v): v / |v|
normalize(v) ==
    LET len == Sqrt(v[1] * v[1] + v[2] * v[2] + v[3] * v[3])
    IN [i \in 1..3 |-> RoundDiv(v[i] * Scale, len)]

Half == Scale \div 2

\* ------------------------------------------------------------- Math.random
\* the generator's next state; the value returned is the state scaled to [0, 1)
nextRandom(s) == (s * 6 + 1) % 251
randomValue(s) == (s * Scale) \div 251

\* ------------------------------------------------------------- subdivision
Call(a, b, c, count) == [a |-> a, b |-> b, c |-> c, count |-> count]

\* tetrahedron with the second face wound the other way round
tetrahedronSwapped(a, b, c, d, n) ==
    <<Call(a, b, c, n), Call(d, b, c, n), Call(a, d, b, n), Call(a, c, d, n)>>

\* tetrahedron(a, b, c, d, n): the four divideTriangle calls, in call order
tetrahedron(a, b, c, d, n) ==
    <<Call(a, b, c, n), Call(d, c, b, n), Call(a, d, b, n), Call(a, c, d, n)>>

\* divideTriangle without its fourth (centre) call
subdivideNoCentre(a, b, c, count) ==
    LET ab == normalize(mix(a, b, Half))
        ac == normalize(mix(a, c, Half))
        bc == normalize(mix(b, c, Half))
    IN <<Call(a, ab, ac, count - 1), Call(ab, b, bc, count - 1),
         Call(bc, c, ac, count - 1)>>

\* divideTriangle with midpoints left off the sphere
subdivideUnnormalized(a, b, c, count) ==
    LET ab == mix(a, b, Half)
        ac == mix(a, c, Half)
        bc == mix(b, c, Half)
    IN <<Call(a, ab, ac, count - 1), Call(ab, b, bc, count - 1),
         Call(bc, c, ac, count - 1), Call(ab, bc, ac, count - 1)>>

\* the recursive branch of divideTriangle: its four calls, in call order
subdivide(a, b, c, count) ==
    LET ab == normalize(mix(a, b, Half))
        ac == normalize(mix(a, c, Half))
        bc == normalize(mix(b, c, Half))
    IN <<Call(a, ab, ac, count - 1), Call(ab, b, bc, count - 1),
         Call(bc, c, ac, count - 1), Call(ab, bc, ac, count - 1)>>

\* triangle pushing the colour for two of the three vertices only
triangleTwoColors(a, b, c) ==
    LET s1 == nextRandom(rng)
        s2 == nextRandom(s1)
        s3 == nextRandom(s2)
        color == <<randomValue(s1), randomValue(s2), randomValue(s3), Scale>>
    IN /\ positions' = positions \o a \o b \o c
       /\ colors' = colors \o color \o color
       /\ rng' = s3
       /\ triangleCalls' = triangleCalls + 1

\* triangle(a, b, c): nine coordinates and three copies of one random colour
triangle(a, b, c) ==
    LET s1 == nextRandom(rng)
        s2 == nextRandom(s1)
        s3 == nextRandom(s2)
        color == <<randomValue(s1), randomValue(s2), randomValue(s3), Scale>>
    IN /\ positions' = positions \o a \o b \o c
       /\ colors' = colors \o color \o color \o color
       /\ rng' = s3
       /\ triangleCalls' = triangleCalls + 1

\* one call of divideTriangle: the call on top of the stack runs
divideTriangle ==
    /\ pc = "subdivide"
    /\ stack # <<>>
    /\ LET f == Head(stack)
       IN IF f.count > 0
          THEN /\ stack' = subdivide(f.a, f.b, f.c, f.count) \o Tail(stack)
               /\ UNCHANGED meshVars
          ELSE /\ triangle(f.a, f.b, f.c)
               /\ stack' = Tail(stack)
    /\ UNCHANGED <<numTimesToSubdivide, dragVars, pc, runs, historyVars, glVars,
                   frameVars, rafPending>>

\* initSphere that forgets to reset positions
resetKeepingPositions ==
    /\ previousPositions' = positions
    /\ previousColors' = colors
    /\ positions' = positions
    /\ colors' = <<>>
    /\ triangleCalls' = 0
    /\ stack' = tetrahedron(va, vb, vc, vd, numTimesToSubdivide)
    /\ pc' = "subdivide"
    /\ runs' = runs + 1
    /\ UNCHANGED <<numTimesToSubdivide, dragVars, rng, glVars, frameVars, rafPending>>

\* initSphere() up to its call of tetrahedron: both sequences are reset
resetAndSubdivide ==
    /\ previousPositions' = positions
    /\ previousColors' = colors
    /\ positions' = <<>>
    /\ colors' = <<>>
    /\ triangleCalls' = 0
    /\ stack' = tetrahedron(va, vb, vc, vd, numTimesToSubdivide)
    /\ pc' = "subdivide"
    /\ runs' = runs + 1
    /\ UNCHANGED <<numTimesToSubdivide, dragVars, rng, glVars, frameVars, rafPending>>

\* the script reaches line 208
initSphere ==
    /\ pc = "boot"
    /\ resetAndSubdivide

\* initSphere() called again once the page is running
regenerate ==
    /\ pc = "idle"
    /\ runs < MaxRuns
    /\ resetAndSubdivide

\* tetrahedron has returned: loadBuffers()
loadBuffers ==
    /\ pc = "subdivide"
    /\ stack = <<>>
    /\ glPositionData' = Len(positions)
    /\ glColorData' = Len(colors)
    /\ pc' = "render"
    /\ UNCHANGED <<numTimesToSubdivide, meshVars, dragVars, stack, runs, historyVars,
                   frameVars, rafPending>>

\* ------------------------------------------------------------------ render
\* gl-matrix: a matrix is the product of the elementary transforms applied to
\* the identity, in order
mat4create == <<>>
mat4perspective(fovy, aspect, near, far) ==
    <<[op |-> "perspective", fovy |-> fovy, aspect |-> aspect, near |-> near, far |-> far]>>
mat4translate(m, v) == Append(m, [op |-> "translate", by |-> v])
mat4rotateX(m, rad) == Append(m, [op |-> "rotateX", by |-> rad])
mat4rotateY(m, rad) == Append(m, [op |-> "rotateY", by |-> rad])

\* render rotating about Y before X
renderYBeforeX ==
    LET m0 == mat4create
        m1 == mat4translate(m0, <<0, 0, -3>>)
        m2 == mat4rotateY(m1, rotationY)
        m3 == mat4rotateX(m2, rotationX)
    IN /\ uModelViewMatrix' = m3
       /\ uProjectionMatrix' =
              mat4perspective("PI/4", "canvas.width/canvas.height", "0.1", "100.0")
       /\ drawn' = [count |-> Len(positions) \div 3,
                    positionVertices |-> glPositionData \div 3,
                    colorVertices |-> glColorData \div 4,
                    triangles |-> triangleCalls]

\* the body of render(): both uniforms, one draw, one requestAnimationFrame
render ==
    LET m0 == mat4create
        m1 == mat4translate(m0, <<0, 0, -3>>)
        m2 == mat4rotateX(m1, rotationX)
        m3 == mat4rotateY(m2, rotationY)
    IN /\ uModelViewMatrix' = m3
       /\ uProjectionMatrix' =
              mat4perspective("PI/4", "canvas.width/canvas.height", "0.1", "100.0")
       /\ drawn' = [count |-> Len(positions) \div 3,
                    positionVertices |-> glPositionData \div 3,
                    colorVertices |-> glColorData \div 4,
                    triangles |-> triangleCalls]

\* render() as called by initSphere (line 99)
renderCall ==
    /\ pc = "render"
    /\ render
    /\ rafPending' = rafPending + 1
    /\ pc' = "idle"
    /\ UNCHANGED <<numTimesToSubdivide, meshVars, dragVars, stack, runs, historyVars,
                   glVars>>

\* an animation frame dispatched in the middle of the script task
renderFrameAnytime ==
    /\ pc \in {"idle", "subdivide"}
    /\ rafPending > 0
    /\ render
    /\ UNCHANGED <<numTimesToSubdivide, meshVars, dragVars, pc, stack, runs, historyVars,
                   glVars, rafPending>>

\* render() as an animation-frame callback: it requests the next frame itself
renderFrame ==
    /\ pc = "idle"
    /\ rafPending > 0
    /\ render
    /\ UNCHANGED <<numTimesToSubdivide, meshVars, dragVars, pc, stack, runs, historyVars,
                   glVars, rafPending>>

\* ------------------------------------------------------------------- mouse
mousedown(x, y) ==
    /\ pc = "idle"
    /\ isDragging' = TRUE
    /\ previousMouseX' = x
    /\ previousMouseY' = y
    /\ UNCHANGED <<numTimesToSubdivide, meshVars, rotationX, rotationY, pc, stack, runs,
                   historyVars, glVars, frameVars, rafPending>>

InRange(r) == -MaxRot <= r /\ r <= MaxRot

\* mousemove that rotates whether or not a drag is active
mousemoveAlways(x, y) ==
    /\ pc = "idle"
    /\ LET deltaX == x - previousMouseX
           deltaY == y - previousMouseY
       IN /\ InRange(rotationY + deltaX * SensNum)
          /\ InRange(rotationX + deltaY * SensNum)
          /\ rotationY' = rotationY + deltaX * SensNum
          /\ rotationX' = rotationX + deltaY * SensNum
          /\ previousMouseX' = x
          /\ previousMouseY' = y
    /\ UNCHANGED <<numTimesToSubdivide, meshVars, isDragging, pc, stack, runs,
                   historyVars, glVars, frameVars, rafPending>>

\* mousemove that never records the pointer position it has handled
mousemoveStale(x, y) ==
    /\ pc = "idle"
    /\ IF isDragging
       THEN LET deltaX == x - previousMouseX
                deltaY == y - previousMouseY
            IN /\ InRange(rotationY + deltaX * SensNum)
               /\ InRange(rotationX + deltaY * SensNum)
               /\ rotationY' = rotationY + deltaX * SensNum
               /\ rotationX' = rotationX + deltaY * SensNum
               /\ UNCHANGED <<previousMouseX, previousMouseY>>
       ELSE UNCHANGED <<rotationX, rotationY, previousMouseX, previousMouseY>>
    /\ UNCHANGED <<numTimesToSubdivide, meshVars, isDragging, pc, stack, runs,
                   historyVars, glVars, frameVars, rafPending>>

mousemove(x, y) ==
    /\ pc = "idle"
    /\ IF isDragging
       THEN LET deltaX == x - previousMouseX
                deltaY == y - previousMouseY
            IN /\ InRange(rotationY + deltaX * SensNum)
               /\ InRange(rotationX + deltaY * SensNum)
               /\ rotationY' = rotationY + deltaX * SensNum
               /\ rotationX' = rotationX + deltaY * SensNum
               /\ previousMouseX' = x
               /\ previousMouseY' = y
       ELSE UNCHANGED <<rotationX, rotationY, previousMouseX, previousMouseY>>
    /\ UNCHANGED <<numTimesToSubdivide, meshVars, isDragging, pc, stack, runs,
                   historyVars, glVars, frameVars, rafPending>>

mouseup ==
    /\ pc = "idle"
    /\ isDragging' = FALSE
    /\ UNCHANGED <<numTimesToSubdivide, meshVars, rotationX, rotationY, previousMouseX,
                   previousMouseY, pc, stack, runs, historyVars, glVars, frameVars,
                   rafPending>>

mouseleave ==
    /\ pc = "idle"
    /\ isDragging' = FALSE
    /\ UNCHANGED <<numTimesToSubdivide, meshVars, rotationX, rotationY, previousMouseX,
                   previousMouseY, pc, stack, runs, historyVars, glVars, frameVars,
                   rafPending>>

MouseDown == \E x \in ClientXs, y \in ClientYs : mousedown(x, y)
MouseMove == \E x \in ClientXs, y \in ClientYs : mousemove(x, y)

\* ---------------------------------------------------------- specifications
InitWith(depths) ==
    /\ numTimesToSubdivide \in depths
    /\ positions = <<>>
    /\ colors = <<>>
    /\ rotationX = 0
    /\ rotationY = 0
    /\ isDragging = FALSE
    /\ previousMouseX = 0
    /\ previousMouseY = 0
    /\ pc = "boot"
    /\ stack = <<>>
    /\ rng \in 0..(NumSeeds - 1)
    /\ triangleCalls = 0
    /\ runs = 0
    /\ previousPositions = <<>>
    /\ previousColors = <<>>
    /\ glPositionData = 0
    /\ glColorData = 0
    /\ uModelViewMatrix = <<>>
    /\ uProjectionMatrix = <<>>
    /\ drawn = [count |-> -1, positionVertices |-> -1, colorVertices |-> -1,
                triangles |-> -1]
    /\ rafPending = 0

Init == InitWith(0..MaxDepth)

\* the configuration may hold any integer, negative ones too
InitAnyDepth == InitWith((0 - MaxDepth)..MaxDepth)

\* the page as the script runs it: one initSphere() at load, then callbacks
Next ==
    \/ initSphere
    \/ divideTriangle
    \/ loadBuffers
    \/ renderCall
    \/ renderFrame
    \/ MouseDown
    \/ MouseMove
    \/ mouseup
    \/ mouseleave

Spec == Init /\ [][Next]_vars

SpecAnyDepth == InitAnyDepth /\ [][Next]_vars

\* the regeneration driver: initSphere() is called again between frames
\* (mouse callbacks, which touch none of the mesh variables, are left out)
NextRegen ==
    \/ initSphere
    \/ regenerate
    \/ divideTriangle
    \/ loadBuffers
    \/ renderCall
    \/ renderFrame

SpecRegen == Init /\ [][NextRegen]_vars

\* regeneration with mouse callbacks interleaved as well
SpecAll == Init /\ [][Next \/ regenerate]_vars

\* ------------------------------------------------------------------ claims
RECURSIVE Pow4(_)
Pow4(n) == IF n <= 0 THEN 1 ELSE 4 * Pow4(n - 1)

\* the script task has left tetrahedron(): the mesh of this run is complete
GenerationDone == pc \in {"render", "idle"}

\* C1: for every depth d >= 0, one run of tetrahedron on an empty mesh calls
\* triangle() exactly 4^(d+1) times.
C1_TriangleCount ==
    GenerationDone =>
        /\ triangleCalls = Pow4(numTimesToSubdivide + 1)
        /\ Len(positions) = 9 * Pow4(numTimesToSubdivide + 1)

C1_Witness ==
    /\ pc = "idle"
    /\ numTimesToSubdivide = 2
    /\ triangleCalls = 64

\* C2: positions and colors grow in lockstep: in every state, during and after
\* generation, positions holds 9 numbers and colors 12 numbers per triangle
\* emitted since the last reset.
C2_Lockstep ==
    /\ Len(positions) = 9 * triangleCalls
    /\ Len(colors) = 12 * triangleCalls

C2_Witness ==
    /\ runs = 2
    /\ pc = "subdivide"
    /\ triangleCalls = 3
    /\ Len(colors) = 36

\* C3: while dragging, a mousemove to (x, y) adds 0.01 * (x - previousMouseX)
\* to rotationY and 0.01 * (y - previousMouseY) to rotationX and records (x, y);
\* so mousedown(10,10), mousemove(20,15), mouseup from rotation (0,0) ends with
\* rotationY = 0.10 and rotationX = 0.05.
C3_DragRotates ==
    [][/\ \A x \in ClientXs, y \in ClientYs :
              (isDragging /\ mousemove(x, y)) =>
                  /\ 100 * rotationY' = 100 * rotationY + (x - previousMouseX) * RotDen
                  /\ 100 * rotationX' = 100 * rotationX + (y - previousMouseY) * RotDen
                  /\ previousMouseX' = x
                  /\ previousMouseY' = y
       /\ mousedown(10, 10) =>
              /\ isDragging'
              /\ previousMouseX' = 10 /\ previousMouseY' = 10
              /\ rotationX' = rotationX /\ rotationY' = rotationY
       /\ (/\ isDragging
           /\ previousMouseX = 10 /\ previousMouseY = 10
           /\ rotationX = 0 /\ rotationY = 0
           /\ mousemove(20, 15)) =>
              /\ 100 * rotationY' = 10 * RotDen
              /\ 100 * rotationX' = 5 * RotDen
       /\ mouseup =>
              /\ ~isDragging'
              /\ rotationX' = rotationX /\ rotationY' = rotationY
      ]_vars

C3_Witness ==
    /\ ~isDragging
    /\ previousMouseX = 20 /\ previousMouseY = 15
    /\ 100 * rotationY = 10 * RotDen
    /\ 100 * rotationX = 5 * RotDen

\* C4: rotationX and rotationY change only on a mousemove during a drag; mouseup
\* and mouseleave end the drag without a rotation update, and a mousemove
\* outside a drag changes neither the rotation nor the recorded position.
C4_RotationOnlyWhileDragging ==
    [][/\ (rotationX' # rotationX \/ rotationY' # rotationY) =>
              /\ isDragging /\ isDragging'
              /\ \E x \in ClientXs, y \in ClientYs : mousemove(x, y)
       /\ (mouseup \/ mouseleave) =>
              /\ ~isDragging'
              /\ UNCHANGED <<rotationX, rotationY, previousMouseX, previousMouseY>>
       /\ (~isDragging /\ \E x \in ClientXs, y \in ClientYs : mousemove(x, y)) =>
              UNCHANGED <<rotationX, rotationY, previousMouseX, previousMouseY>>
       /\ (~isDragging /\ ~isDragging') =>
              UNCHANGED <<rotationX, rotationY, previousMouseX, previousMouseY>>
      ]_vars

C4_Witness ==
    /\ ~isDragging
    /\ rotationY = 10
    /\ rotationX = -5
    /\ previousMouseX = 20 /\ previousMouseY = 10

Distinct3(a, b, c) == a # b /\ a # c /\ b # c

\* C5: at depth 0 the seed tetrahedron is emitted as exactly the 4 triangles
\* (a,b,c), (d,c,b), (a,d,b), (a,c,d), in this order, each with three distinct
\* seed points left as they are.
C5_DepthZeroFaces ==
    (numTimesToSubdivide = 0 /\ GenerationDone) =>
        /\ triangleCalls = 4
        /\ positions = va \o vb \o vc \o vd \o vc \o vb \o va \o vd \o vb \o va \o vc \o vd
        /\ \A t \in 0..3 :
               LET v(k) == SubSeq(positions, 9 * t + 3 * k + 1, 9 * t + 3 * k + 3)
               IN /\ Distinct3(v(0), v(1), v(2))
                  /\ {v(0), v(1), v(2)} \subseteq {va, vb, vc, vd}

C5_Witness ==
    /\ numTimesToSubdivide = 0
    /\ pc = "idle"
    /\ Len(positions) = 36

\* C6: a negative subdivision depth is rejected before the engine is entered:
\* no divideTriangle call is made and no triangle is appended.
C6_NegativeDepthRejected ==
    numTimesToSubdivide < 0 =>
        /\ stack = <<>>
        /\ triangleCalls = 0
        /\ positions = <<>>
        /\ colors = <<>>

\* C7: no draw reads a partially built mesh: whatever gl.drawArrays last drew
\* was a complete generation of 4^(depth+1) triangles, and its vertex count was
\* the vertex count of the buffers loadBuffers had uploaded.
C7_DrawsCompleteMesh ==
    drawn.count # -1 =>
        /\ drawn.triangles = Pow4(numTimesToSubdivide + 1)
        /\ drawn.count = 3 * Pow4(numTimesToSubdivide + 1)
        /\ drawn.count = drawn.positionVertices
        /\ drawn.count = drawn.colorVertices

C7_Witness ==
    /\ runs = 2
    /\ pc = "subdivide"
    /\ triangleCalls = 2
    /\ rafPending > 0
    /\ drawn.count = 48

\* C8: regeneration rebuilds the mesh wholesale: initSphere() first clears both
\* sequences, and the positions of the new run equal those of the previous
\* run, whatever colours were drawn; lengths never accumulate.
C8_RegenerationIdempotent ==
    /\ (pc = "subdivide" /\ triangleCalls = 0) => (positions = <<>> /\ colors = <<>>)
    /\ (runs >= 2 /\ GenerationDone) =>
           /\ positions = previousPositions
           /\ Len(colors) = Len(previousColors)
    /\ Len(positions) <= 9 * Pow4(numTimesToSubdivide + 1)
    /\ Len(colors) <= 12 * Pow4(numTimesToSubdivide + 1)

C8_Witness ==
    /\ runs = 2
    /\ pc = "idle"
    /\ numTimesToSubdivide = 1
    /\ positions = previousPositions
    /\ Len(positions) = 144
    /\ colors # previousColors

\* C9: every frame submits translate(0,0,-3), then rotateX(rotationX), then
\* rotateY(rotationY), built from the identity with the rotation current at that
\* frame, whatever matrix the previous frame submitted; render leaves
\* rotationX and rotationY as they are.
C9_FreshMatrices ==
    [][(renderCall \/ renderFrame) =>
           /\ uModelViewMatrix' = <<[op |-> "translate", by |-> <<0, 0, -3>>],
                                    [op |-> "rotateX", by |-> rotationX],
                                    [op |-> "rotateY", by |-> rotationY]>>
           /\ uProjectionMatrix' = <<[op |-> "perspective", fovy |-> "PI/4",
                                      aspect |-> "canvas.width/canvas.height",
                                      near |-> "0.1", far |-> "100.0"]>>
           /\ rotationX' = rotationX
           /\ rotationY' = rotationY
      ]_vars

C9_Witness ==
    /\ uModelViewMatrix = <<[op |-> "translate", by |-> <<0, 0, -3>>],
                            [op |-> "rotateX", by |-> 5],
                            [op |-> "rotateY", by |-> 10]>>
    /\ rotationX = 5
    /\ rotationY = 10

RECURSIVE Leaves(_, _, _, _)
\* the leaves of divideTriangle(a, b, c, n), depth first, as flat coordinates
Leaves(a, b, c, n) ==
    IF n > 0
    THEN LET ab == normalize(mix(a, b, Half))
             ac == normalize(mix(a, c, Half))
             bc == normalize(mix(b, c, Half))
         IN Leaves(a, ab, ac, n - 1) \o Leaves(ab, b, bc, n - 1)
                \o Leaves(bc, c, ac, n - 1) \o Leaves(ab, bc, ac, n - 1)
    ELSE a \o b \o c

\* C10: for depth > 0 a divideTriangle call emits nothing itself and makes four
\* calls at depth - 1, in the order (a,ab,ac), (ab,b,bc), (bc,c,ac), (ab,bc,ac)
\* on the normalized edge midpoints; so the leaves of each face come out depth
\* first, every vertex a corner or a normalized midpoint.
C10_SplitOrder ==
    [][/\ (pc = "subdivide" /\ stack # <<>> /\ Head(stack).count > 0) =>
              LET f == Head(stack)
                  ab == normalize(mix(f.a, f.b, Half))
                  ac == normalize(mix(f.a, f.c, Half))
                  bc == normalize(mix(f.b, f.c, Half))
                  n == f.count - 1
              IN /\ triangleCalls' = triangleCalls
                 /\ positions' = positions
                 /\ colors' = colors
                 /\ stack' = <<[a |-> f.a, b |-> ab, c |-> ac, count |-> n],
                               [a |-> ab, b |-> f.b, c |-> bc, count |-> n],
                               [a |-> bc, b |-> f.c, c |-> ac, count |-> n],
                               [a |-> ab, b |-> bc, c |-> ac, count |-> n]>>
                              \o Tail(stack)
       /\ (pc = "subdivide" /\ pc' = "render") =>
              positions' = Leaves(va, vb, vc, numTimesToSubdivide)
                               \o Leaves(vd, vc, vb, numTimesToSubdivide)
                               \o Leaves(va, vd, vb, numTimesToSubdivide)
                               \o Leaves(va, vc, vd, numTimesToSubdivide)
      ]_vars

C10_Witness ==
    /\ numTimesToSubdivide = 2
    /\ pc = "subdivide"
    /\ Len(stack) = 10
    /\ Head(stack).count = 0
    /\ triangleCalls = 0

====
